---- MODULE Spec2Model ----
(***************************************************************************)
(* Entity resolution of the Premier League Fantasy Draft Assistant:        *)
(* PlayerMapper (src/data/processors/player_mapper.py) and the team        *)
(* normalizer of DataCleaner (src/data/processors/data_cleaner.py).        *)
(*                                                                         *)
(* Conventions of the model                                                *)
(*  - a Python str is a sequence of one-character strings, so that         *)
(*    lower(), strip() and difflib's matching act on characters;           *)
(*  - a float that the code computes as 2.0*M/T, and a threshold, is the   *)
(*    reduced fraction <<num, den>>; floats are compared by cross          *)
(*    multiplication (IEEE division is correctly rounded, and the          *)
(*    fractions of the model have small denominators, so two such floats   *)
(*    compare as their fractions do);                                      *)
(*  - a DataFrame is the sequence of its rows, a row is a record of its    *)
(*    columns; a dict is the sequence of its <<key, value>> items in       *)
(*    insertion order, keys distinct;                                      *)
(*  - the keys of the persisted overlay are decimal strings (the data      *)
(*    model keys it by primary_id in string form);                         *)
(*  - the import of data_cleaner at player_mapper.py:147 resolves;         *)
(*  - a value json.load returns that is no dict (a list, a string) is      *)
(*    kept as its type only: manual_mappings_type is "list" and            *)
(*    manual_mappings holds no item.                                       *)
(*  - a cell without a value is the float nan, written NaN; the cells of   *)
(*    the name and team columns are strs or NaN;                           *)
(*  - the players table of the database is the sequence of its rows, each  *)
(*    joined with the name of its team.                                    *)
(***************************************************************************)
EXTENDS Integers, Sequences, FiniteSets, TLC

VARIABLES
    mapping_file,     \* the persisted manual-mapping file (self.mapping_file on disk)
    constructed,      \* TRUE once a PlayerMapper has been constructed
    manual_mappings,  \* self.manual_mappings of the PlayerMapper
    manual_mappings_type, \* type(self.manual_mappings): "dict" or "list"
    fpl_df,           \* the primary table handed to map_players in this collection run
    understat_df,     \* the secondary table handed to map_players in this collection run
    ret,              \* the latest call: its name, arguments, exception and return value
    missing_df,       \* the latest export_missing_mappings: its arguments and return value
    output_file,      \* the review file (output_file of export_missing_mappings on disk)
    writers,          \* the PlayerMapper instances of concurrent processes
    db_players        \* the players table of the database collect_understat_data uses

vars == <<mapping_file, constructed, manual_mappings, manual_mappings_type,
          fpl_df, understat_df, ret, missing_df, output_file, writers, db_players>>

----------------------------------------------------------------------------
(* The players of the model: the names and team spellings of the records   *)

Kane == <<"K", "a", "n", "e">>
kane_ == <<"k", "a", "n", "e", " ">>
H_Kane == <<"H", " ", "K", "a", "n", "e">>
Kean == <<"K", "e", "a", "n">>

Tottenham_Hotspur ==
    <<"T", "o", "t", "t", "e", "n", "h", "a", "m", " ", "H", "o", "t", "s", "p", "u", "r">>
Tottenham == <<"T", "o", "t", "t", "e", "n", "h", "a", "m">>
Spurs == <<"S", "p", "u", "r", "s">>

\* name and team of a primary record
FplPlayers ==
    { [web_name |-> Kane, team_name |-> Tottenham_Hotspur],
      [web_name |-> H_Kane, team_name |-> Spurs],
      [web_name |-> Kean, team_name |-> Tottenham_Hotspur] }

\* name and team of a secondary record
UnderstatPlayers ==
    { [player_name |-> Kane, team_title |-> Spurs],
      [player_name |-> kane_, team_title |-> Tottenham] }

Xu == <<"X", "u">>
Son == <<"S", "o", "n">>

\* the records of the runs that look at the automated pass: one team under two
\* spellings, a primary name that shares no character with a secondary name
MatchFplPlayers ==
    { [web_name |-> Kane, team_name |-> Tottenham_Hotspur],
      [web_name |-> H_Kane, team_name |-> Tottenham_Hotspur],
      [web_name |-> Xu, team_name |-> Tottenham_Hotspur] }

MatchUnderstatPlayers ==
    { [player_name |-> Kane, team_title |-> Tottenham],
      [player_name |-> Son, team_title |-> Tottenham] }

\* a cell without a value: the float nan that pandas puts where a record has no
\* such field. It is no str: no character is "NaN"
NaN == <<"NaN">>

Nan == <<"N", "a", "n">>

\* the records of the runs on tables with missing values: a name or a team is
\* missing, or the team is the empty string
MissingFplPlayers ==
    { [web_name |-> NaN, team_name |-> Tottenham_Hotspur],
      [web_name |-> Kane, team_name |-> NaN],
      [web_name |-> Kane, team_name |-> <<>>] }

MissingUnderstatPlayers ==
    { [player_name |-> Nan, team_title |-> Tottenham],
      [player_name |-> Kane, team_title |-> NaN],
      [player_name |-> Kane, team_title |-> <<>>] }

Names ==
    {p.web_name : p \in FplPlayers \cup MatchFplPlayers \cup MissingFplPlayers}
    \cup {p.player_name :
             p \in UnderstatPlayers \cup MatchUnderstatPlayers \cup MissingUnderstatPlayers}
    \cup {<<>>}

Teams ==
    {p.team_name : p \in FplPlayers \cup MatchFplPlayers \cup MissingFplPlayers}
    \cup {p.team_title :
             p \in UnderstatPlayers \cup MatchUnderstatPlayers \cup MissingUnderstatPlayers}

----------------------------------------------------------------------------
(* Python str operations                                                   *)

UpperCase == <<"A", "B", "C", "D", "E", "F", "G", "H", "I", "J", "K", "L", "M",
               "N", "O", "P", "Q", "R", "S", "T", "U", "V", "W", "X", "Y", "Z">>

LowerCase == <<"a", "b", "c", "d", "e", "f", "g", "h", "i", "j", "k", "l", "m",
               "n", "o", "p", "q", "r", "s", "t", "u", "v", "w", "x", "y", "z">>

Whitespace == {" ", "\t", "\n"}

UpperToLower ==
    [c \in {UpperCase[i] : i \in DOMAIN UpperCase} |->
        LowerCase[CHOOSE i \in DOMAIN UpperCase : UpperCase[i] = c]]

\* one character of str.lower()
LowerChar(c) == IF c \in DOMAIN UpperToLower THEN UpperToLower[c] ELSE c

\* str.lower()
lower(s) == [i \in DOMAIN s |-> LowerChar(s[i])]

RECURSIVE lstrip(_)
lstrip(s) ==
    IF s # <<>> /\ Head(s) \in Whitespace THEN lstrip(Tail(s)) ELSE s

RECURSIVE rstrip(_)
rstrip(s) ==
    IF s # <<>> /\ s[Len(s)] \in Whitespace
    THEN rstrip(SubSeq(s, 1, Len(s) - 1))
    ELSE s

\* str.strip()
strip(s) == rstrip(lstrip(s))

\* str.upper()
upper(s) ==
    [i \in DOMAIN s |->
        IF \E n \in DOMAIN LowerCase : LowerCase[n] = s[i]
        THEN UpperCase[CHOOSE n \in DOMAIN LowerCase : LowerCase[n] = s[i]]
        ELSE s[i]]

\* int(s) of a decimal string: leading zeros are dropped ("01" is 1)
DigitValue(c) ==
    CASE c = "0" -> 0 [] c = "1" -> 1 [] c = "2" -> 2 [] c = "3" -> 3 [] c = "4" -> 4
      [] c = "5" -> 5 [] c = "6" -> 6 [] c = "7" -> 7 [] c = "8" -> 8 [] c = "9" -> 9

RECURSIVE int(_)
int(s) ==
    IF s = <<>> THEN 0
    ELSE 10 * int(SubSeq(s, 1, Len(s) - 1)) + DigitValue(s[Len(s)])

\* str(n) of a non-negative int
RECURSIVE str(_)
str(n) ==
    LET d == <<"0", "1", "2", "3", "4", "5", "6", "7", "8", "9">>[(n % 10) + 1]
    IN  IF n < 10 THEN <<d>> ELSE Append(str(n \div 10), d)

\* pd.notna(x) of a cell
notna(x) == x # NaN

\* str(x) of a cell: the text of a str is the str, that of nan is "nan"
str_cell(x) == IF x = NaN THEN <<"n", "a", "n">> ELSE x

\* a == b of two cells: nan is equal to nothing, itself included
CellEq(a, b) == a # NaN /\ b # NaN /\ a = b

----------------------------------------------------------------------------
(* DataCleaner.normalize_team_names                                        *)

team_mapping ==
    (<<"m", "a", "n", "c", "h", "e", "s", "t", "e", "r", " ", "u", "n", "i", "t", "e", "d">>
        :> <<"m", "a", "n", " ", "u", "t", "d">>)
    @@ (<<"m", "a", "n", "c", "h", "e", "s", "t", "e", "r", " ", "c", "i", "t", "y">>
        :> <<"m", "a", "n", " ", "c", "i", "t", "y">>)
    @@ (<<"n", "e", "w", "c", "a", "s", "t", "l", "e", " ", "u", "n", "i", "t", "e", "d">>
        :> <<"n", "e", "w", "c", "a", "s", "t", "l", "e">>)
    @@ (<<"t", "o", "t", "t", "e", "n", "h", "a", "m">>
        :> <<"s", "p", "u", "r", "s">>)
    @@ (<<"t", "o", "t", "t", "e", "n", "h", "a", "m", " ", "h", "o", "t", "s", "p", "u", "r">>
        :> <<"s", "p", "u", "r", "s">>)
    @@ (<<"w", "o", "l", "v", "e", "r", "h", "a", "m", "p", "t", "o", "n">>
        :> <<"w", "o", "l", "v", "e", "s">>)
    @@ (<<"w", "o", "l", "v", "e", "r", "h", "a", "m", "p", "t", "o", "n", " ", "w", "a", "n", "d", "e", "r", "e", "r", "s">>
        :> <<"w", "o", "l", "v", "e", "s">>)
    @@ (<<"b", "r", "i", "g", "h", "t", "o", "n">>
        :> <<"b", "r", "i", "g", "h", "t", "o", "n">>)
    @@ (<<"b", "r", "i", "g", "h", "t", "o", "n", " ", "a", "n", "d", " ", "h", "o", "v", "e", " ", "a", "l", "b", "i", "o", "n">>
        :> <<"b", "r", "i", "g", "h", "t", "o", "n">>)
    @@ (<<"b", "r", "i", "g", "h", "t", "o", "n", " ", "&", " ", "h", "o", "v", "e", " ", "a", "l", "b", "i", "o", "n">>
        :> <<"b", "r", "i", "g", "h", "t", "o", "n">>)
    @@ (<<"l", "e", "i", "c", "e", "s", "t", "e", "r">>
        :> <<"l", "e", "i", "c", "e", "s", "t", "e", "r">>)
    @@ (<<"l", "e", "i", "c", "e", "s", "t", "e", "r", " ", "c", "i", "t", "y">>
        :> <<"l", "e", "i", "c", "e", "s", "t", "e", "r">>)

\* a variant with lower() on the default instead of on the key that is looked up
NormalizeTeamLowerDefault(x) ==
    IF ~notna(x) THEN x
    ELSE IF str_cell(x) \in DOMAIN team_mapping
         THEN team_mapping[str_cell(x)]
         ELSE lower(str_cell(x))

\* the lambda of normalize_team_names:
\* team_mapping.get(str(x).lower(), x) if pd.notna(x) else x
NormalizeTeam(x) ==
    IF ~notna(x) THEN x
    ELSE IF lower(str_cell(x)) \in DOMAIN team_mapping
         THEN team_mapping[lower(str_cell(x))]
         ELSE x

\* NormalizeTeam on the teams of the model, evaluated once (@@ enumerates it)
TeamKeyOnce == [x \in Teams |-> NormalizeTeam(x)] @@ <<>>

\* NormalizeTeam(x), looked up where it is already evaluated
TeamKey(x) == TeamKeyOnce[x]

\* f'normalized_{team_col}'
NormalizedCol(team_col) ==
    CASE team_col = "team_name" -> "normalized_team_name"
      [] team_col = "team_title" -> "normalized_team_title"
      [] team_col = "team" -> "normalized_team"

\* normalize_team_names(df, team_col): a copy with the column normalized_<team_col>
\* added; an empty table, or one without the column, is returned as it is
normalize_team_names(df, team_col) ==
    IF df = <<>> \/ team_col \notin DOMAIN df[1] THEN df
    ELSE [i \in DOMAIN df |->
            df[i] @@ (NormalizedCol(team_col) :> TeamKey(df[i][team_col]))]

----------------------------------------------------------------------------
(* difflib.SequenceMatcher(None, a, b).ratio(), no junk (autojunk acts on  *)
(* sequences of 200 elements or more)                                      *)

\* length of the longest common prefix of a[i:ahi] and b[j:bhi] (0-based, half open)
RECURSIVE CommonPrefix(_, _, _, _, _, _)
CommonPrefix(a, b, i, j, ahi, bhi) ==
    IF i < ahi /\ j < bhi /\ a[i + 1] = b[j + 1]
    THEN 1 + CommonPrefix(a, b, i + 1, j + 1, ahi, bhi)
    ELSE 0

\* the block <<i, j, k>> with k maximal, then i minimal, then j minimal, where
\* K[<<i, j>>] is the length of the longest common run that starts at i and j;
\* <<alo, blo, 0>> when nothing matches
LongestOf(K, P, alo, ahi, blo, bhi) ==
    LET k == CHOOSE n \in {K[p] : p \in P} \cup {0} :
                \A p \in P : K[p] <= n
        i == CHOOSE m \in alo .. ahi - 1 :
                /\ \E p \in P : p[1] = m /\ K[p] = k
                /\ \A p \in P : K[p] = k => m <= p[1]
        j == CHOOSE m \in blo .. bhi - 1 :
                /\ K[<<i, m>>] = k
                /\ \A p \in P : (p[1] = i /\ K[p] = k) => m <= p[2]
    IN  IF k = 0 THEN <<alo, blo, 0>> ELSE <<i, j, k>>

\* find_longest_match(alo, ahi, blo, bhi)
find_longest_match(a, b, alo, ahi, blo, bhi) ==
    LongestOf([p \in (alo .. ahi - 1) \X (blo .. bhi - 1) |->
                  CommonPrefix(a, b, p[1], p[2], ahi, bhi)],
              (alo .. ahi - 1) \X (blo .. bhi - 1), alo, ahi, blo, bhi)

\* the sum of the sizes of get_matching_blocks()
RECURSIVE matches(_, _, _, _, _, _)
\* the block m = <<i, j, k>> and the blocks to its left and to its right
matches_around(a, b, alo, ahi, blo, bhi, m) ==
    IF m[3] = 0 THEN 0
    ELSE m[3]
         + (IF alo < m[1] /\ blo < m[2] THEN matches(a, b, alo, m[1], blo, m[2]) ELSE 0)
         + (IF m[1] + m[3] < ahi /\ m[2] + m[3] < bhi
            THEN matches(a, b, m[1] + m[3], ahi, m[2] + m[3], bhi) ELSE 0)

matches(a, b, alo, ahi, blo, bhi) ==
    matches_around(a, b, alo, ahi, blo, bhi,
                   find_longest_match(a, b, alo, ahi, blo, bhi))

RECURSIVE Gcd(_, _)
Gcd(m, n) == IF n = 0 THEN m ELSE Gcd(n, m % n)

\* the float num/den
Float(num, den) == <<num \div Gcd(num, den), den \div Gcd(num, den)>>

\* float comparisons
Geq(x, y) == x[1] * y[2] >= y[1] * x[2]
Gt(x, y) == x[1] * y[2] > y[1] * x[2]

\* ratio(): 2.0 * matches / length, 1.0 when both sequences are empty
ratio(a, b) ==
    IF Len(a) + Len(b) = 0 THEN Float(1, 1)
    ELSE Float(2 * matches(a, b, 0, Len(a), 0, Len(b)), Len(a) + Len(b))

\* a variant that does not clean the names
get_name_similarity_raw(name1, name2) == ratio(name1, name2)

\* PlayerMapper.get_name_similarity
get_name_similarity(name1, name2) ==
    ratio(strip(lower(str_cell(name1))), strip(lower(str_cell(name2))))

\* get_name_similarity on the names of the model, evaluated once (@@ enumerates it)
SimilarityOnce ==
    [p \in Names \X Names |-> get_name_similarity(p[1], p[2])] @@ <<>>

\* get_name_similarity(name1, name2), looked up where it is already evaluated
Similarity(name1, name2) == SimilarityOnce[<<name1, name2>>]

----------------------------------------------------------------------------
(* Bounds and the inputs of a collection run                               *)

\* rows of a table
MaxRows == 2

\* the id of the i-th secondary record
UnderstatIdNames == <<"u1", "u2", "u3", "u4">>

\* the ids that manual mappings are made for
ReviewedFplIds == {1, 2}

ReviewedUnderstatIds == {"u1", "u2"}

FplRow(id, p) == [id |-> id, web_name |-> p.web_name, team_name |-> p.team_name]

UnderstatRow(id, p) ==
    [id |-> id, player_name |-> p.player_name, team_title |-> p.team_title]

\* primary tables: up to MaxRows rows, the i-th row has the id i
FplTables ==
    UNION { { [i \in 1 .. n |-> FplRow(i, ps[i])] :
                ps \in [1 .. n -> FplPlayers] } : n \in 0 .. MaxRows }

\* secondary tables: up to MaxRows rows, the i-th row has the i-th id
UnderstatTables ==
    UNION { { [i \in 1 .. n |-> UnderstatRow(UnderstatIdNames[i], ps[i])] :
                ps \in [1 .. n -> UnderstatPlayers] } : n \in 0 .. MaxRows }

\* thresholds of a run: the default 0.8, and 0.75
Thresholds == {Float(4, 5), Float(3, 4)}

\* keys of a persisted overlay: str(id), and a second spelling of 1
FileKeys == {str(i) : i \in ReviewedFplIds} \cup {<<"0", "1">>}

\* the dicts json.load returns from the flat tables of the model: no item, or one
FileTables == {<<>>} \cup {<<item>> : item \in FileKeys \X ReviewedUnderstatIds}

Missing == [kind |-> "missing", items |-> <<>>]
Unreadable == [kind |-> "unreadable", items |-> <<>>]
Unparseable == [kind |-> "unparseable", items |-> <<>>]
Table(d) == [kind |-> "table", items |-> d]

\* a file that parses to a list or a string (len() is defined on it)
JsonList == [kind |-> "list", items |-> <<>>]

\* a file that parses to null or a number (len() raises TypeError on it)
JsonScalar == [kind |-> "scalar", items |-> <<>>]

\* the states of the file at self.mapping_file before the run
InitialFiles ==
    {Missing, Unreadable, Unparseable, JsonList, JsonScalar}
    \cup {Table(d) : d \in FileTables}

----------------------------------------------------------------------------
(* dict operations                                                         *)

Keys(d) == {d[i][1] : i \in DOMAIN d}

Values(d) == {d[i][2] : i \in DOMAIN d}

\* d[k] = v: an existing key keeps its place, a new key goes last
DictSet(d, k, v) ==
    IF k \in Keys(d)
    THEN [i \in DOMAIN d |-> IF d[i][1] = k THEN <<k, v>> ELSE d[i]]
    ELSE Append(d, <<k, v>>)

----------------------------------------------------------------------------
(* Manual mapping store                                                    *)

\* ret before any call; repeat is TRUE when the call before was map_players too,
\* with the same threshold
NoCall == [op |-> "none", threshold |-> <<0, 1>>, raised |-> "", value |-> <<>>,
           repeat |-> FALSE]

Call(op) == [NoCall EXCEPT !.op = op]

\* a variant without the except clause: the read error reaches the caller
LoadResultRaising(file) ==
    CASE file.kind = "missing" -> [manual_mappings |-> <<>>, raised |-> ""]
      [] file.kind = "unreadable" -> [manual_mappings |-> <<>>, raised |-> "PermissionError"]
      [] file.kind = "unparseable" -> [manual_mappings |-> <<>>, raised |-> "JSONDecodeError"]
      [] file.kind = "list" -> [manual_mappings |-> <<>>, raised |-> ""]
      [] file.kind = "scalar" -> [manual_mappings |-> <<>>, raised |-> "TypeError"]
      [] file.kind = "table" -> [manual_mappings |-> file.items, raised |-> ""]

\* _load_mappings on the fresh self.manual_mappings = {}: the log line after
\* json.load takes len() of the value, so null or a number ends in the except
\* clause and a list or a string stays
LoadResult(file) ==
    CASE file.kind = "missing" -> [manual_mappings |-> <<>>, raised |-> ""]
      [] file.kind = "unreadable" -> [manual_mappings |-> <<>>, raised |-> ""]
      [] file.kind = "unparseable" -> [manual_mappings |-> <<>>, raised |-> ""]
      [] file.kind = "list" -> [manual_mappings |-> <<>>, raised |-> ""]
      [] file.kind = "scalar" -> [manual_mappings |-> <<>>, raised |-> ""]
      [] file.kind = "table" -> [manual_mappings |-> file.items, raised |-> ""]

\* type(self.manual_mappings) after _load_mappings
LoadType(file) == IF file.kind = "list" THEN "list" ELSE "dict"

\* PlayerMapper(mapping_file)
PlayerMapper_init ==
    /\ constructed' = TRUE
    /\ manual_mappings' = LoadResult(mapping_file).manual_mappings
    /\ manual_mappings_type' = LoadType(mapping_file)
    /\ ret' = [Call("__init__") EXCEPT !.raised = LoadResult(mapping_file).raised]
    /\ UNCHANGED <<mapping_file, fpl_df, understat_df, missing_df, output_file, writers, db_players>>

\* outcomes of the write in _save_mappings
WriteOutcomes == {"ok", "makedirs_fails", "open_fails", "dump_fails"}

\* _save_mappings: the file after the write
SavedFile(file, d, io) ==
    CASE io = "ok" -> Table(d)
      [] io = "makedirs_fails" -> file
      [] io = "open_fails" -> file
      [] io = "dump_fails" -> Unparseable

\* add_manual_mapping(fpl_id, understat_id): the item assignment raises TypeError
\* on a list or a string, before anything is saved
add_manual_mapping(fpl_id, understat_id, io) ==
    /\ constructed
    /\ IF manual_mappings_type = "dict"
       THEN /\ manual_mappings' = DictSet(manual_mappings, str(fpl_id), understat_id)
            /\ mapping_file' = SavedFile(mapping_file, manual_mappings', io)
            /\ ret' = Call("add_manual_mapping")
       ELSE /\ ret' = [Call("add_manual_mapping") EXCEPT !.raised = "TypeError"]
            /\ UNCHANGED <<manual_mappings, mapping_file>>
    /\ UNCHANGED <<constructed, manual_mappings_type, fpl_df, understat_df,
                   missing_df, output_file, writers, db_players>>

----------------------------------------------------------------------------
(* Concurrent processes, each with a PlayerMapper on the same mapping_file *)

Writers == {"A", "B"}

\* the primary ids a process adds a mapping for: different ones in different
\* processes, of one digit and of two
WriterFplIds == ("A" :> {1}) @@ ("B" :> {2, 10})

\* no process has started. pc is the position of the process, loaded the overlay
\* its __init__ has loaded, completed the processes in the order in which their
\* writes were completed
NoWriters ==
    [of |-> [w \in Writers |->
                [pc |-> "start", manual_mappings |-> <<>>, loaded |-> <<>>]],
     completed |-> <<>>]

\* the length of json.dump(d, f, indent=2): "{}", or "{", a line
\* '  "key": "value"' for each item, "," between the lines, and "}"
RECURSIVE ItemsLen(_, _)
ItemsLen(d, n) ==
    IF n > Len(d) THEN 0
    ELSE 8 + Len(d[n][1]) + Len(d[n][2]) + ItemsLen(d, n + 1)

JsonLen(d) == IF d = <<>> THEN 2 ELSE 4 + ItemsLen(d, 1) + 2 * (Len(d) - 1)

\* the size of the file; the items of an unparseable file are those of the table
\* whose text reaches the end of the file, none for an empty file
FileSize(file) ==
    IF file.kind = "table" \/ (file.kind = "unparseable" /\ file.items # <<>>)
    THEN JsonLen(file.items)
    ELSE 0

\* open(self.mapping_file, 'w'): the file is created or truncated
OpenedFile(file) == Unparseable

\* json.dump and close on a file opened before: the text of d goes to the start
\* of the file, over what another process has written since; what is beyond the
\* end of the text stays
WrittenFile(file, d) ==
    IF FileSize(file) <= JsonLen(d) THEN Table(d)
    ELSE [kind |-> "unparseable", items |-> file.items]

\* PlayerMapper(mapping_file) in process w
writer_init(w) ==
    /\ writers.of[w].pc = "start"
    /\ writers' = [writers EXCEPT
           !.of[w] = [pc |-> "loaded",
                      manual_mappings |-> LoadResult(mapping_file).manual_mappings,
                      loaded |-> LoadResult(mapping_file).manual_mappings]]
    /\ UNCHANGED <<mapping_file, constructed, manual_mappings, manual_mappings_type,
                   fpl_df, understat_df, ret, missing_df, output_file, db_players>>

\* add_manual_mapping in process w, line 65
writer_assign(w, fpl_id, understat_id) ==
    /\ writers.of[w].pc = "loaded"
    /\ writers' = [writers EXCEPT
           !.of[w].pc = "assigned",
           !.of[w].manual_mappings = DictSet(@, str(fpl_id), understat_id)]
    /\ UNCHANGED <<mapping_file, constructed, manual_mappings, manual_mappings_type,
                   fpl_df, understat_df, ret, missing_df, output_file, db_players>>

\* _save_mappings in process w, lines 49 to 51
writer_open(w) ==
    /\ writers.of[w].pc = "assigned"
    /\ mapping_file' = OpenedFile(mapping_file)
    /\ writers' = [writers EXCEPT !.of[w].pc = "opened"]
    /\ UNCHANGED <<constructed, manual_mappings, manual_mappings_type,
                   fpl_df, understat_df, ret, missing_df, output_file, db_players>>

\* _save_mappings in process w, line 52 and the end of the with block
writer_dump(w) ==
    /\ writers.of[w].pc = "opened"
    /\ mapping_file' = WrittenFile(mapping_file, writers.of[w].manual_mappings)
    /\ writers' = [writers EXCEPT !.of[w].pc = "done",
                                  !.completed = Append(@, w)]
    /\ UNCHANGED <<constructed, manual_mappings, manual_mappings_type,
                   fpl_df, understat_df, ret, missing_df, output_file, db_players>>

----------------------------------------------------------------------------
(* PlayerMapper.map_players                                                *)

Columns(df) == DOMAIN df[1]

fpl_id_col(df) == IF "id" \in Columns(df) THEN "id" ELSE "fpl_id"
fpl_name_col(df) == IF "web_name" \in Columns(df) THEN "web_name" ELSE "name"
fpl_team_col(df) == IF "team_name" \in Columns(df) THEN "team_name" ELSE "team"

understat_id_col(df) == IF "id" \in Columns(df) THEN "id" ELSE "understat_id"
understat_name_col(df) == IF "player_name" \in Columns(df) THEN "player_name" ELSE "name"
understat_team_col(df) == IF "team_title" \in Columns(df) THEN "team_title" ELSE "team"

\* df[df[col] == v]
RowsWith(df, col, v) == SelectSeq(df, LAMBDA r : r[col] = v)

\* df[~df[col].isin(vs)]
RowsWithout(df, col, vs) == SelectSeq(df, LAMBDA r : r[col] \notin vs)

\* row.get(col, default)
RowGet(row, col, default) == IF col \in DOMAIN row THEN row[col] ELSE default

ManualEntry(item, fdf, udf) ==
    [fpl_id |-> int(item[1]),
     understat_id |-> item[2],
     fpl_name |-> RowsWith(fdf, fpl_id_col(fdf), int(item[1]))[1][fpl_name_col(fdf)],
     understat_name |->
         RowsWith(udf, understat_id_col(udf), item[2])[1][understat_name_col(udf)],
     matching_type |-> "manual",
     similarity |-> Float(1, 1)]

\* a variant that leaves the loop at the first pair it cannot apply
ManualPassUntilStale(mm, fdf, udf) ==
    LET Applies(item) ==
            /\ RowsWith(fdf, fpl_id_col(fdf), int(item[1])) # <<>>
            /\ RowsWith(udf, understat_id_col(udf), item[2]) # <<>>
        stale == {n \in DOMAIN mm : ~Applies(mm[n])}
        last == IF stale = {} THEN Len(mm)
                ELSE (CHOOSE n \in stale : \A m \in stale : n <= m) - 1
    IN  [n \in 1 .. last |-> ManualEntry(mm[n], fdf, udf)]

\* the loop over self.manual_mappings.items(): a pair with an id that is in
\* neither table is skipped
ManualPass(mm, fdf, udf) ==
    LET Applies(item) ==
            /\ RowsWith(fdf, fpl_id_col(fdf), int(item[1])) # <<>>
            /\ RowsWith(udf, understat_id_col(udf), item[2]) # <<>>
        applied == SelectSeq(mm, Applies)
    IN  [n \in DOMAIN applied |-> ManualEntry(applied[n], fdf, udf)]

matched_fpl_ids(mm) == {int(k) : k \in Keys(mm)}

\* a variant that leaves the secondary records of manual pairs in the pool
matched_understat_ids_none(mm) == {}

matched_understat_ids(mm) == Values(mm)

remaining_fpl(mm, fdf) ==
    normalize_team_names(RowsWithout(fdf, fpl_id_col(fdf), matched_fpl_ids(mm)),
                         fpl_team_col(fdf))

remaining_understat(mm, udf) ==
    normalize_team_names(RowsWithout(udf, understat_id_col(udf), matched_understat_ids(mm)),
                         understat_team_col(udf))

\* a variant without the team filter
same_team_players_all(rem_understat, team_col, fpl_team) == rem_understat

\* remaining_understat[remaining_understat.get(normalized column, raw column) == fpl_team]
same_team_players(rem_understat, team_col, fpl_team) ==
    SelectSeq(rem_understat,
              LAMBDA r : CellEq(RowGet(r, NormalizedCol(team_col), r[team_col]), fpl_team))

\* a variant that lets a later candidate of the same similarity replace the best
BetterMatchLast(n, similarity, best) ==
    IF Geq(similarity, best[2]) /\ similarity[1] > 0 THEN <<n, similarity>> ELSE best

\* the inner loop: <<index of best_match in cands (0 for None), best_similarity>>
\* if similarity > best_similarity: best_similarity, best_match = similarity, row n
BetterMatch(n, similarity, best) ==
    IF Gt(similarity, best[2]) THEN <<n, similarity>> ELSE best

RECURSIVE BestMatch(_, _, _, _, _)
BestMatch(fpl_name, cands, name_col, n, best) ==
    IF n > Len(cands) THEN best
    ELSE BestMatch(fpl_name, cands, name_col, n + 1,
                   BetterMatch(n, Similarity(fpl_name, cands[n][name_col]), best))

\* a variant that accepts only above the threshold
AcceptAbove(best_match, best_similarity, threshold) ==
    best_match # 0 /\ Gt(best_similarity, threshold)

\* best_match is not None and best_similarity >= threshold
Accept(best_match, best_similarity, threshold) ==
    best_match # 0 /\ Geq(best_similarity, threshold)

\* a variant that gives an automated entry the similarity of a manual one
AcceptedEntryCertain(fpl_player, cands, best, fdf, udf, threshold) ==
    IF Accept(best[1], best[2], threshold)
    THEN << [fpl_id |-> fpl_player[fpl_id_col(fdf)],
             understat_id |-> cands[best[1]][understat_id_col(udf)],
             fpl_name |-> fpl_player[fpl_name_col(fdf)],
             understat_name |-> cands[best[1]][understat_name_col(udf)],
             matching_type |-> "automated",
             similarity |-> Float(1, 1)] >>
    ELSE <<>>

\* the append at the end of the body of the outer loop: the entries of one
\* primary record, given its candidates and the best of them
AcceptedEntry(fpl_player, cands, best, fdf, udf, threshold) ==
    IF Accept(best[1], best[2], threshold)
    THEN << [fpl_id |-> fpl_player[fpl_id_col(fdf)],
             understat_id |-> cands[best[1]][understat_id_col(udf)],
             fpl_name |-> fpl_player[fpl_name_col(fdf)],
             understat_name |-> cands[best[1]][understat_name_col(udf)],
             matching_type |-> "automated",
             similarity |-> best[2]] >>
    ELSE <<>>

\* the inner loop over the candidates of one primary record, and the append
CandidatesEntry(fpl_player, cands, fdf, udf, threshold) ==
    AcceptedEntry(fpl_player, cands,
                  BestMatch(fpl_player[fpl_name_col(fdf)], cands,
                            understat_name_col(udf), 1, <<0, Float(0, 1)>>),
                  fdf, udf, threshold)

\* the body of the outer loop for one remaining primary record: its entries
AutomatedEntry(fpl_player, rem_understat, fdf, udf, threshold) ==
    CandidatesEntry(fpl_player,
                    same_team_players(rem_understat, understat_team_col(udf),
                                      RowGet(fpl_player, NormalizedCol(fpl_team_col(fdf)),
                                             fpl_player[fpl_team_col(fdf)])),
                    fdf, udf, threshold)

\* a variant that takes a matched secondary record out of the pool: entry is the
\* entries of row n
RECURSIVE AutomatedPassConsuming(_, _, _, _, _, _)
AutomatedPassConsumingFrom(entry, rem_fpl, rem_understat, fdf, udf, threshold, n) ==
    entry
    \o AutomatedPassConsuming(
           rem_fpl,
           SelectSeq(rem_understat,
                     LAMBDA r : \A m \in DOMAIN entry :
                                   r[understat_id_col(udf)] # entry[m].understat_id),
           fdf, udf, threshold, n + 1)

AutomatedPassConsuming(rem_fpl, rem_understat, fdf, udf, threshold, n) ==
    IF n > Len(rem_fpl) THEN <<>>
    ELSE AutomatedPassConsumingFrom(
             AutomatedEntry(rem_fpl[n], rem_understat, fdf, udf, threshold),
             rem_fpl, rem_understat, fdf, udf, threshold, n)

\* the outer loop over remaining_fpl, from row n on
RECURSIVE AutomatedPass(_, _, _, _, _, _)
AutomatedPass(rem_fpl, rem_understat, fdf, udf, threshold, n) ==
    IF n > Len(rem_fpl) THEN <<>>
    ELSE AutomatedEntry(rem_fpl[n], rem_understat, fdf, udf, threshold)
         \o AutomatedPass(rem_fpl, rem_understat, fdf, udf, threshold, n + 1)

\* a variant that keeps the list of the previous run
mappings_kept == IF ret.op = "map_players" THEN ret.value ELSE <<>>

\* mappings = []
mappings_new == <<>>

\* a variant that runs the automated pass before the manual one
MappingsAutomatedFirst(mm, fdf, udf, threshold) ==
    mappings_new
    \o AutomatedPass(remaining_fpl(mm, fdf), remaining_understat(mm, udf),
                     fdf, udf, threshold, 1)
    \o ManualPass(mm, fdf, udf)

\* the list mappings at line 191
Mappings(mm, fdf, udf, threshold) ==
    mappings_new
    \o ManualPass(mm, fdf, udf)
    \o AutomatedPass(remaining_fpl(mm, fdf), remaining_understat(mm, udf),
                     fdf, udf, threshold, 1)

\* mappings_df = pd.DataFrame(mappings) and the log line after it: with no entry,
\* pd.DataFrame([]) has no column matching_type and the log line raises KeyError
DataFrameResult(mappings) ==
    IF mappings = <<>> THEN [raised |-> "KeyError", value |-> <<>>]
    ELSE [raised |-> "", value |-> mappings]

\* a variant without the early return: the log line raises on the empty list
MapPlayersResultLate(mm, fdf, udf, threshold) ==
    IF fdf = <<>> \/ udf = <<>> THEN [raised |-> "KeyError", value |-> <<>>]
    ELSE DataFrameResult(Mappings(mm, fdf, udf, threshold))

\* the outcome of map_players: an empty table on an empty input
MapPlayersResult(mm, fdf, udf, threshold) ==
    IF fdf = <<>> \/ udf = <<>> THEN [raised |-> "", value |-> <<>>]
    ELSE DataFrameResult(Mappings(mm, fdf, udf, threshold))

\* the outcome of map_players on self.manual_mappings of type mm_type: a list or
\* a string has no items() for the loop at line 116
MapPlayersOutcome(mm_type, mm, fdf, udf, threshold) ==
    IF mm_type = "dict" \/ fdf = <<>> \/ udf = <<>>
    THEN MapPlayersResult(mm, fdf, udf, threshold)
    ELSE [raised |-> "AttributeError", value |-> <<>>]

\* a variant that drops the pairs the manual pass has skipped
manual_mappings_pruned(mm, fdf, udf) ==
    IF fdf = <<>> \/ udf = <<>> THEN mm
    ELSE SelectSeq(mm, LAMBDA item :
            /\ RowsWith(fdf, fpl_id_col(fdf), int(item[1])) # <<>>
            /\ RowsWith(udf, understat_id_col(udf), item[2]) # <<>>)

\* self.manual_mappings after map_players: the method only reads it
manual_mappings_read(mm, fdf, udf) == mm

\* what the caller of map_players holds after the call with outcome r
MapPlayersCall(threshold, r, repeat) ==
    [op |-> "map_players", threshold |-> threshold, raised |-> r.raised,
     value |-> r.value, repeat |-> repeat]

\* a variant that adds the normalized column to the table it is given
input_normalized_in_place(df, team_col) == normalize_team_names(df, team_col)

\* a table the caller has passed, after map_players: df[~df[id_col].isin(...)]
\* is a new table, and normalize_team_names assigns the normalized column on
\* normalized_df = df.copy() of that
input_after_map_players(df, team_col) == df

\* map_players(fpl_df, understat_df, threshold)
map_players(threshold) ==
    /\ constructed
    /\ ret' = MapPlayersCall(threshold,
                             MapPlayersOutcome(manual_mappings_type, manual_mappings,
                                               fpl_df, understat_df, threshold),
                             ret.op = "map_players" /\ ret.threshold = threshold)
    /\ manual_mappings' = manual_mappings_read(manual_mappings, fpl_df, understat_df)
    /\ IF manual_mappings_type = "dict" /\ fpl_df # <<>> /\ understat_df # <<>>
       THEN /\ fpl_df' = input_after_map_players(fpl_df, fpl_team_col(fpl_df))
            /\ understat_df' =
                   input_after_map_players(understat_df, understat_team_col(understat_df))
       ELSE UNCHANGED <<fpl_df, understat_df>>
    /\ UNCHANGED <<mapping_file, constructed, manual_mappings_type,
                   missing_df, output_file, writers, db_players>>

----------------------------------------------------------------------------
(* PlayerMapper.export_missing_mappings                                    *)

\* before any export
NoExport == [called |-> FALSE, mappings_df |-> <<>>, value |-> <<>>]

\* the review file: absent, or the rows of the latest to_csv
NoFile == [kind |-> "missing", rows |-> <<>>]

CsvFile(rows) == [kind |-> "csv", rows |-> rows]

\* a variant that takes every primary id as mapped
mapped_ids_all(fdf, mappings_df) == {fdf[i][fpl_id_col(fdf)] : i \in DOMAIN fdf}

\* mappings_df['fpl_id'].tolist() if not mappings_df.empty else []
mapped_ids(fdf, mappings_df) == {mappings_df[i].fpl_id : i \in DOMAIN mappings_df}

\* fpl_df[~fpl_df[fpl_id_col].isin(mapped_ids)], or an empty table for an empty fpl_df
unmapped_players(fdf, mappings_df) ==
    IF fdf = <<>> THEN <<>>
    ELSE RowsWithout(fdf, fpl_id_col(fdf), mapped_ids(fdf, mappings_df))

\* the file after the export: written only when unmapped_players is not empty
ExportedFile(file, unmapped) == IF unmapped # <<>> THEN CsvFile(unmapped) ELSE file

\* export_missing_mappings(fpl_df, mappings_df) on the table map_players returned
export_missing_mappings ==
    /\ constructed
    /\ ret.op = "map_players"
    /\ ret.raised = ""
    /\ missing_df' = [called |-> TRUE, mappings_df |-> ret.value,
                      value |-> unmapped_players(fpl_df, ret.value)]
    /\ output_file' = ExportedFile(output_file, unmapped_players(fpl_df, ret.value))
    /\ UNCHANGED <<mapping_file, constructed, manual_mappings, manual_mappings_type,
                   fpl_df, understat_df, ret, writers, db_players>>

----------------------------------------------------------------------------
(* collect_understat_data and the players table of the database            *)

\* understat_id of a player no Understat data has been stored for
NULL == "NULL"

\* a row of players joined with the name of its team: id is the primary key of
\* the row, fpl_id the id of the player at FPL
DbRow(id, fpl_id, p) ==
    [id |-> id, fpl_id |-> fpl_id, understat_id |-> NULL,
     web_name |-> p.web_name, team_name |-> p.team_name]

\* DatabaseHandler.get_players_dataframe: SELECT p.*, t.name as team_name
get_players_dataframe(db) == db

\* DatabaseHandler.update_player_understat_data(player_id, understat_data): the
\* player is looked up by fpl_id; without such a player nothing is updated
update_player_understat_data(db, player_id, understat_data) ==
    IF \E i \in DOMAIN db : db[i].fpl_id = player_id
    THEN [db EXCEPT ![CHOOSE i \in DOMAIN db : db[i].fpl_id = player_id].understat_id =
                        understat_data.id]
    ELSE db

\* the body of the loop over mappings_df.iterrows() for one mapping, given the
\* rows of understat_players_df with its understat_id
UpdatedFor(db, mapping, understat_player) ==
    IF understat_player # <<>>
    THEN update_player_understat_data(db, mapping.fpl_id, understat_player[1])
    ELSE db

\* the loop over mappings_df.iterrows(), from mapping n on
RECURSIVE UpdateLoop(_, _, _, _)
UpdateLoop(db, mappings_df, understat_players_df, n) ==
    IF n > Len(mappings_df) THEN db
    ELSE UpdateLoop(UpdatedFor(db, mappings_df[n],
                               RowsWith(understat_players_df, "id",
                                        mappings_df[n].understat_id)),
                    mappings_df, understat_players_df, n + 1)

\* the default of the parameter threshold of map_players
default_threshold == Float(4, 5)

\* lines 168 to 186 for the outcome r of map_players on fpl_players_df: an
\* exception of map_players ends the collection, nothing catches it
collect_mapped(fpl_players_df, r) ==
    IF r.raised # ""
    THEN /\ ret' = [Call("collect_understat_data") EXCEPT !.raised = r.raised]
         /\ UNCHANGED <<missing_df, output_file, db_players>>
    ELSE /\ ret' = [Call("collect_understat_data") EXCEPT !.value = r.value]
         /\ missing_df' = [called |-> TRUE, mappings_df |-> r.value,
                           value |-> unmapped_players(fpl_players_df, r.value)]
         /\ output_file' =
                ExportedFile(output_file, unmapped_players(fpl_players_df, r.value))
         /\ db_players' = UpdateLoop(db_players, r.value, understat_df, 1)

\* collect_understat_data(db_handler), understat_df being the table the Understat
\* client has returned
collect_understat_data ==
    IF understat_df = <<>> \/ get_players_dataframe(db_players) = <<>>
    THEN /\ ret' = Call("collect_understat_data")
         /\ UNCHANGED <<mapping_file, constructed, manual_mappings, manual_mappings_type,
                        fpl_df, understat_df, missing_df, output_file, writers, db_players>>
    ELSE /\ constructed' = TRUE
         /\ manual_mappings' = LoadResult(mapping_file).manual_mappings
         /\ manual_mappings_type' = LoadType(mapping_file)
         /\ fpl_df' = get_players_dataframe(db_players)
         /\ collect_mapped(fpl_df',
                           MapPlayersOutcome(manual_mappings_type', manual_mappings',
                                             fpl_df', understat_df, default_threshold))
         /\ UNCHANGED <<mapping_file, understat_df, writers>>

----------------------------------------------------------------------------
(* The collection run: the tables are materialized, then the store is      *)
(* constructed, manual mappings are added and the tables are mapped, in    *)
(* any order and any number of times. In Spec the writes of                *)
(* _save_mappings succeed. SpecExport is the run with the export of the    *)
(* unmapped players, SpecStore the store with the outcomes of its writes,  *)
(* SpecWriters two processes that write the same file, and SpecScorer the  *)
(* calls of get_name_similarity. SpecMatch is the run on tables of one     *)
(* team at the thresholds 0, 0.8 and 1, SpecMissing the run on tables with *)
(* missing values, SpecCollect collect_understat_data over the players of  *)
(* the database, and SpecTeams the team normalizer applied to a cell.      *)

Init ==
    /\ mapping_file \in InitialFiles
    /\ constructed = FALSE
    /\ manual_mappings = <<>>
    /\ fpl_df \in FplTables
    /\ understat_df \in UnderstatTables
    /\ ret = NoCall
    /\ manual_mappings_type = "dict"
    /\ missing_df = NoExport
    /\ output_file = NoFile
    /\ writers = NoWriters
    /\ db_players = <<>>

Next ==
    \/ PlayerMapper_init
    \/ \E fpl_id \in ReviewedFplIds, understat_id \in ReviewedUnderstatIds :
          add_manual_mapping(fpl_id, understat_id, "ok")
    \/ \E threshold \in Thresholds : map_players(threshold)

Spec == Init /\ [][Next]_vars

\* the collection run with its export: the store is constructed on the persisted
\* overlay, the tables are mapped and the unmapped players are exported
NextExport ==
    \/ PlayerMapper_init
    \/ \E threshold \in Thresholds : map_players(threshold)
    \/ export_missing_mappings

SpecExport == Init /\ [][NextExport]_vars

\* the characters and the length of the names the scorer is called on
NameChars == {"A", "a", "b", " "}

MaxNameLen == 3

ScorerNames == UNION {[1 .. n -> NameChars] : n \in 0 .. MaxNameLen}

\* a constructed store and the two names of a call of get_name_similarity
InitScorer ==
    /\ mapping_file = Missing
    /\ constructed = TRUE
    /\ manual_mappings = <<>>
    /\ manual_mappings_type = "dict"
    /\ fpl_df = <<>>
    /\ understat_df = <<>>
    /\ \E name1 \in ScorerNames, name2 \in ScorerNames :
          ret = [NoCall EXCEPT !.value = <<name1, name2>>]
    /\ missing_df = NoExport
    /\ output_file = NoFile
    /\ writers = NoWriters
    /\ db_players = <<>>

\* get_name_similarity(name1, name2) on the two names
get_name_similarity_call ==
    /\ constructed
    /\ ret.op = "none"
    /\ ret' = [Call("get_name_similarity") EXCEPT
                  !.value = <<ret.value[1], ret.value[2],
                              get_name_similarity(ret.value[1], ret.value[2])>>]
    /\ UNCHANGED <<mapping_file, constructed, manual_mappings, manual_mappings_type,
                   fpl_df, understat_df, missing_df, output_file, writers, db_players>>

SpecScorer == InitScorer /\ [][get_name_similarity_call]_vars

\* the store alone, with the outcomes of its writes: no table is mapped
InitStore == Init /\ fpl_df = <<>> /\ understat_df = <<>>

NextStore ==
    \/ PlayerMapper_init
    \/ \E fpl_id \in ReviewedFplIds, understat_id \in ReviewedUnderstatIds,
          io \in WriteOutcomes :
          add_manual_mapping(fpl_id, understat_id, io)

SpecStore == InitStore /\ [][NextStore]_vars

\* two processes on one mapping_file that they can read and write; each
\* constructs its store and adds one mapping
InitWriters ==
    /\ Init
    /\ fpl_df = <<>>
    /\ understat_df = <<>>
    /\ mapping_file \in {Missing, Unparseable} \cup {Table(d) : d \in FileTables}

NextWriters ==
    \E w \in Writers :
        \/ writer_init(w)
        \/ \E fpl_id \in WriterFplIds[w], understat_id \in ReviewedUnderstatIds :
              writer_assign(w, fpl_id, understat_id)
        \/ writer_open(w)
        \/ writer_dump(w)

SpecWriters == InitWriters /\ [][NextWriters]_vars

\* rows of a table of the runs that look at the automated pass
MatchRows == 3

MatchFplTables ==
    UNION { { [i \in 1 .. n |-> FplRow(i, ps[i])] :
                ps \in [1 .. n -> MatchFplPlayers] } : n \in 1 .. MatchRows }

MatchUnderstatTables ==
    UNION { { [i \in 1 .. n |-> UnderstatRow(UnderstatIdNames[i], ps[i])] :
                ps \in [1 .. n -> MatchUnderstatPlayers] } : n \in 1 .. MatchRows }

\* thresholds of these runs: the ends of [0,1] and the default
MatchThresholds == {Float(0, 1), Float(4, 5), Float(1, 1)}

\* persisted overlays of these runs: none, and one of two pairs whose order is
\* not that of the primary table
MatchFiles ==
    {Missing, Table(<< <<str(2), "u2">>, <<str(1), "u1">> >>)}

\* the automated pass: the store is constructed on the persisted overlay and
\* the tables, which are not empty, are mapped
InitMatch ==
    /\ mapping_file \in MatchFiles
    /\ constructed = FALSE
    /\ manual_mappings = <<>>
    /\ manual_mappings_type = "dict"
    /\ fpl_df \in MatchFplTables
    /\ understat_df \in MatchUnderstatTables
    /\ ret = NoCall
    /\ missing_df = NoExport
    /\ output_file = NoFile
    /\ writers = NoWriters
    /\ db_players = <<>>

NextMatch ==
    \/ PlayerMapper_init
    \/ \E threshold \in MatchThresholds : map_players(threshold)

SpecMatch == InitMatch /\ [][NextMatch]_vars

MissingFplTables ==
    UNION { { [i \in 1 .. n |-> FplRow(i, ps[i])] :
                ps \in [1 .. n -> MissingFplPlayers] } : n \in 1 .. MaxRows }

MissingUnderstatTables ==
    UNION { { [i \in 1 .. n |-> UnderstatRow(UnderstatIdNames[i], ps[i])] :
                ps \in [1 .. n -> MissingUnderstatPlayers] } : n \in 1 .. MaxRows }

\* tables with missing values: the store is constructed without a persisted
\* overlay and the tables are mapped
InitMissing ==
    /\ mapping_file = Missing
    /\ constructed = FALSE
    /\ manual_mappings = <<>>
    /\ manual_mappings_type = "dict"
    /\ fpl_df \in MissingFplTables
    /\ understat_df \in MissingUnderstatTables
    /\ ret = NoCall
    /\ missing_df = NoExport
    /\ output_file = NoFile
    /\ writers = NoWriters
    /\ db_players = <<>>

NextMissing ==
    \/ PlayerMapper_init
    \/ \E threshold \in Thresholds : map_players(threshold)

SpecMissing == InitMissing /\ [][NextMissing]_vars

\* the ids of players at FPL
FplIds == {1, 2, 3}

\* players tables: up to MaxRows rows, the i-th row has the primary key i, the
\* FPL ids are distinct
DbTables ==
    UNION { { [i \in 1 .. n |-> DbRow(i, ids[i], ps[i])] :
                ids \in {f \in [1 .. n -> FplIds] :
                            \A i, j \in 1 .. n : f[i] = f[j] => i = j},
                ps \in [1 .. n -> FplPlayers] } : n \in 0 .. MaxRows }

\* persisted overlays of the collection: none, and a pair for the player whose
\* FPL id is 2
CollectFiles == {Missing, Table(<< <<str(2), "u1">> >>)}

\* the collection over the players of the database
InitCollect ==
    /\ mapping_file \in CollectFiles
    /\ constructed = FALSE
    /\ manual_mappings = <<>>
    /\ manual_mappings_type = "dict"
    /\ fpl_df = <<>>
    /\ understat_df \in UnderstatTables
    /\ ret = NoCall
    /\ missing_df = NoExport
    /\ output_file = NoFile
    /\ writers = NoWriters
    /\ db_players \in DbTables

SpecCollect == InitCollect /\ [][collect_understat_data]_vars

\* the canonical keys of the lookup table
CanonicalKeys == {team_mapping[alias] : alias \in DOMAIN team_mapping}

\* team cells the normalizer is applied to: the aliases and the canonical keys,
\* as they are, in upper case and with a trailing blank, the teams of the
\* records, the empty string and a missing value
NormalizerInputs ==
    LET known == DOMAIN team_mapping \cup CanonicalKeys
    IN  known \cup {upper(x) : x \in known} \cup {x \o <<" ">> : x \in known}
        \cup Teams \cup {<<>>, NaN}

\* times the normalizer is applied to a cell and to its results in a row
MaxNormalizations == 2

\* a team cell; ret.value is the cell followed by the results of the normalizer
InitTeams ==
    /\ mapping_file = Missing
    /\ constructed = FALSE
    /\ manual_mappings = <<>>
    /\ manual_mappings_type = "dict"
    /\ fpl_df = <<>>
    /\ understat_df = <<>>
    /\ \E x \in NormalizerInputs : ret = [NoCall EXCEPT !.value = <<x>>]
    /\ missing_df = NoExport
    /\ output_file = NoFile
    /\ writers = NoWriters
    /\ db_players = <<>>

\* the lambda of normalize_team_names applied to the latest result
normalize_team_names_apply ==
    /\ Len(ret.value) <= MaxNormalizations
    /\ ret' = [Call("normalize_team_names") EXCEPT
                  !.value = Append(ret.value, NormalizeTeam(ret.value[Len(ret.value)]))]
    /\ UNCHANGED <<mapping_file, constructed, manual_mappings, manual_mappings_type,
                   fpl_df, understat_df, missing_df, output_file, writers, db_players>>

SpecTeams == InitTeams /\ [][normalize_team_names_apply]_vars

----------------------------------------------------------------------------
(* Vocabulary of the properties. In a state where the latest call is       *)
(* map_players, manual_mappings is the overlay that run has used: every    *)
(* other call replaces ret.                                                *)

Ran == ret.op = "map_players"

Returned == Ran /\ ret.raised = ""

NonEmptyInputs == fpl_df # <<>> /\ understat_df # <<>>

\* the latest run has had remaining records: it has gone past the loop over the
\* items of the overlay
ReachedAutomatedPass == Ran /\ NonEmptyInputs /\ manual_mappings_type = "dict"

Entry(i) == ret.value[i]

IsManual(e) == e.matching_type = "manual"

IsAutomated(e) == e.matching_type = "automated"

FplIdsOf(df) == {df[i].id : i \in DOMAIN df}

UnderstatIdsOf(df) == {df[i].id : i \in DOMAIN df}

FplRowOf(id) == fpl_df[CHOOSE i \in DOMAIN fpl_df : fpl_df[i].id = id]

UnderstatRowOf(id) ==
    understat_df[CHOOSE i \in DOMAIN understat_df : understat_df[i].id = id]

\* the primary records no overlay key denotes
RemainingPrimaries ==
    {i \in DOMAIN fpl_df : \A k \in Keys(manual_mappings) : int(k) # fpl_df[i].id}

\* the secondary records no overlay value names
RemainingSecondaries ==
    {j \in DOMAIN understat_df : understat_df[j].id \notin Values(manual_mappings)}

\* the remaining secondary records on the normalized team of primary record i
CandidatesOf(i) ==
    {j \in RemainingSecondaries :
        TeamKey(understat_df[j].team_title) = TeamKey(fpl_df[i].team_name)}

SimilarityOf(i, j) == Similarity(fpl_df[i].web_name, understat_df[j].player_name)

\* the highest similarity over the candidates of primary record i
BestSimilarityOf(i) ==
    CHOOSE s \in {SimilarityOf(i, j) : j \in CandidatesOf(i)} :
        \A j \in CandidatesOf(i) : Geq(s, SimilarityOf(i, j))

EntriesOfPrimary(id) == {n \in DOMAIN ret.value : Entry(n).fpl_id = id}

----------------------------------------------------------------------------
(* Properties                                                              *)

\* C1 (as claimed): in the table a run returns, no primary_id is in more than one
\* entry, whatever overlay the store has loaded.
Exclusivity ==
    Returned =>
        \A m, n \in DOMAIN ret.value : Entry(m).fpl_id = Entry(n).fpl_id => m = n

\* C2 (as claimed): map_players never raises; a run on non-empty tables in which no
\* manual pair applies and no candidate reaches the threshold returns an empty table.
NeverRaises == Ran => ret.raised = ""

\* C3: a remaining primary record whose best same-team candidate has similarity
\* s > 0 is matched, with confidence s, to a candidate of that similarity when
\* s >= threshold (also when s equals the threshold), and has no entry when
\* s < threshold.
ThresholdBoundary ==
    ReachedAutomatedPass =>
        \A i \in RemainingPrimaries :
            (CandidatesOf(i) # {} /\ Gt(BestSimilarityOf(i), Float(0, 1))) =>
                IF Geq(BestSimilarityOf(i), ret.threshold)
                THEN /\ Returned
                     /\ \E n \in EntriesOfPrimary(fpl_df[i].id) :
                          /\ IsAutomated(Entry(n))
                          /\ Entry(n).similarity = BestSimilarityOf(i)
                          /\ \E j \in CandidatesOf(i) :
                                /\ understat_df[j].id = Entry(n).understat_id
                                /\ SimilarityOf(i, j) = BestSimilarityOf(i)
                ELSE EntriesOfPrimary(fpl_df[i].id) = {}

\* C3 witness: one run matches a primary record whose best similarity equals the
\* threshold and leaves unmatched one whose best similarity is below it.
ThresholdBoundaryWitness ==
    /\ Returned
    /\ \E i \in RemainingPrimaries :
          /\ CandidatesOf(i) # {}
          /\ BestSimilarityOf(i) = ret.threshold
          /\ EntriesOfPrimary(fpl_df[i].id) # {}
    /\ \E i \in RemainingPrimaries :
          /\ CandidatesOf(i) # {}
          /\ Gt(BestSimilarityOf(i), Float(0, 1))
          /\ ~Geq(BestSimilarityOf(i), ret.threshold)
          /\ EntriesOfPrimary(fpl_df[i].id) = {}

\* C4: every automated entry links two records with equal normalized team keys.
TeamIsolation ==
    Returned =>
        \A n \in DOMAIN ret.value :
            IsAutomated(Entry(n)) =>
                TeamKey(FplRowOf(Entry(n).fpl_id).team_name)
                    = TeamKey(UnderstatRowOf(Entry(n).understat_id).team_title)

\* C4 witness: a run with an automated entry leaves unlinked two remaining records
\* of similarity 1.0 whose normalized teams differ.
TeamIsolationWitness ==
    /\ Returned
    /\ \E n \in DOMAIN ret.value : IsAutomated(Entry(n))
    /\ \E i \in RemainingPrimaries, j \in RemainingSecondaries :
          /\ SimilarityOf(i, j) = Float(1, 1)
          /\ TeamKey(fpl_df[i].team_name) # TeamKey(understat_df[j].team_title)
          /\ \A n \in DOMAIN ret.value :
                ~(Entry(n).fpl_id = fpl_df[i].id /\ Entry(n).understat_id = understat_df[j].id)

\* C5: for an overlay pair P1 -> S1 with both records present, the table holds the
\* manual entry (P1, S1), no automated entry for P1 and no automated entry with S1.
ManualPrecedence ==
    (Ran /\ NonEmptyInputs) =>
        \A x \in DOMAIN manual_mappings :
            LET P1 == int(manual_mappings[x][1])
                S1 == manual_mappings[x][2]
            IN  (P1 \in FplIdsOf(fpl_df) /\ S1 \in UnderstatIdsOf(understat_df)) =>
                    /\ Returned
                    /\ \E n \in DOMAIN ret.value :
                          /\ IsManual(Entry(n))
                          /\ Entry(n).fpl_id = P1
                          /\ Entry(n).understat_id = S1
                    /\ \A n \in DOMAIN ret.value :
                          IsAutomated(Entry(n)) =>
                              Entry(n).fpl_id # P1 /\ Entry(n).understat_id # S1

\* C5 witness: S1 is manually mapped to P1 and is, on the normalized team of a
\* remaining primary P2, the record most similar to P2, at or above the threshold.
ManualPrecedenceWitness ==
    /\ Returned
    /\ \E x \in DOMAIN manual_mappings, i \in RemainingPrimaries, j \in DOMAIN understat_df :
          /\ int(manual_mappings[x][1]) \in FplIdsOf(fpl_df)
          /\ understat_df[j].id = manual_mappings[x][2]
          /\ TeamKey(understat_df[j].team_title) = TeamKey(fpl_df[i].team_name)
          /\ Geq(SimilarityOf(i, j), ret.threshold)
          /\ \A k \in CandidatesOf(i) : Gt(SimilarityOf(i, j), SimilarityOf(i, k))

CorruptFile == mapping_file.kind \in {"missing", "unreadable", "unparseable"}

\* C7: constructing the store over a missing, unreadable or unparseable file raises
\* nothing and leaves the overlay empty, and a run that follows has no manual entry.
CorruptOverlayRecovery ==
    [][/\ (CorruptFile /\ ret'.op = "__init__") =>
            (ret'.raised = "" /\ constructed' /\ manual_mappings' = <<>>)
       /\ (CorruptFile /\ ret.op = "__init__" /\ ret'.op = "map_players") =>
            \A n \in DOMAIN ret'.value : IsAutomated(ret'.value[n])]_vars

\* C7 witness: over a corrupt file that nothing has rewritten, a run has returned
\* automated entries only.
CorruptOverlayRecoveryWitness ==
    /\ Returned
    /\ CorruptFile
    /\ manual_mappings = <<>>
    /\ ret.value # <<>>
    /\ \A n \in DOMAIN ret.value : IsAutomated(Entry(n))

\* C8 (as claimed): "Tottenham Hotspur" and "Spurs" get the same normalized key,
\* and a run over one primary and one secondary record with these teams and the
\* same name returns the one automated entry, with confidence 1.0.
AliasConvergence ==
    (/\ Ran
     /\ manual_mappings = <<>>
     /\ Len(fpl_df) = 1
     /\ Len(understat_df) = 1
     /\ fpl_df[1].team_name = Tottenham_Hotspur
     /\ understat_df[1].team_title = Spurs
     /\ fpl_df[1].web_name = understat_df[1].player_name)
    => /\ NormalizeTeam(fpl_df[1].team_name) = NormalizeTeam(understat_df[1].team_title)
       /\ ret.raised = ""
       /\ Len(ret.value) = 1
       /\ IsAutomated(Entry(1))
       /\ Entry(1).fpl_id = fpl_df[1].id
       /\ Entry(1).understat_id = understat_df[1].id
       /\ Entry(1).similarity = Float(1, 1)

\* the key the specification gives a team name
ExpectedTeamKey(x) ==
    IF strip(lower(x)) \in DOMAIN team_mapping
    THEN team_mapping[strip(lower(x))]
    ELSE strip(lower(x))

\* C9 (as claimed): every team name a run normalizes gets the canonical key of
\* its lower-cased, trimmed form when that is an alias, and else that form itself.
TeamNormalizerResult ==
    (Ran /\ NonEmptyInputs) =>
        /\ \A i \in DOMAIN fpl_df :
              NormalizeTeam(fpl_df[i].team_name) = ExpectedTeamKey(fpl_df[i].team_name)
        /\ \A j \in DOMAIN understat_df :
              NormalizeTeam(understat_df[j].team_title)
                  = ExpectedTeamKey(understat_df[j].team_title)

\* C10 (as claimed): the secondary_id of a manual entry is in no other entry.
ManualSecondaryOnce ==
    Returned =>
        \A m, n \in DOMAIN ret.value :
            (IsManual(Entry(m)) /\ Entry(m).understat_id = Entry(n).understat_id) => m = n

----------------------------------------------------------------------------
(* The manual mapping store                                                *)

\* the primary ids the keys of overlay d denote, one for each item
PrimaryIdsOf(d) == [i \in DOMAIN d |-> int(d[i][1])]

\* C11 (as claimed): after an add whose write succeeded, the overlay holds one
\* secondary_id for each primary_id, the persisted table equals the overlay, and a
\* store constructed on the file loads that overlay.
SingleWriterStore ==
    [][(ret'.op = "add_manual_mapping" /\ ret'.raised = "") =>
          /\ \A m, n \in DOMAIN manual_mappings' :
                PrimaryIdsOf(manual_mappings')[m] = PrimaryIdsOf(manual_mappings')[n]
                    => manual_mappings'[m][2] = manual_mappings'[n][2]
          /\ mapping_file' = Table(manual_mappings')
          /\ LoadResult(mapping_file').manual_mappings = manual_mappings'
          /\ LoadType(mapping_file') = "dict"]_vars

\* C12 (as claimed): an add on a dict overlay raises nothing and puts its entry in
\* the overlay, and the persisted copy is then either the new overlay or, when the
\* write failed, one that loads as the copy before the add did.
WriteFailureLags ==
    [][(ret'.op = "add_manual_mapping" /\ manual_mappings_type = "dict") =>
          /\ ret'.raised = ""
          /\ \E fpl_id \in ReviewedFplIds, understat_id \in ReviewedUnderstatIds :
                /\ <<str(fpl_id), understat_id>> \in
                       {manual_mappings'[i] : i \in DOMAIN manual_mappings'}
                /\ manual_mappings' = DictSet(manual_mappings, str(fpl_id), understat_id)
          /\ \/ mapping_file' = Table(manual_mappings')
             \/ LoadResult(mapping_file') = LoadResult(mapping_file)]_vars

\* C13 (as claimed): when two processes that have loaded the same persisted
\* overlay have each added a mapping and completed the write, the persisted table
\* is the overlay of the process whose write was completed last.
LastWriterWins ==
    (/\ Len(writers.completed) = Cardinality(Writers)
     /\ \A v, w \in Writers : writers.of[v].loaded = writers.of[w].loaded)
    => mapping_file = Table(writers.of[writers.completed[Len(writers.completed)]]
                                .manual_mappings)

----------------------------------------------------------------------------
(* The unmatched set                                                       *)

Exported == missing_df.called

\* the primary ids of the entries of the mapping table the export was given
MappedPrimaryIds == {missing_df.mappings_df[n].fpl_id : n \in DOMAIN missing_df.mappings_df}

\* the rows export_missing_mappings has returned
UnmatchedRows == {missing_df.value[n] : n \in DOMAIN missing_df.value}

\* C14: export_missing_mappings returns exactly the primary records whose id is
\* not the primary_id of an entry of the mapping table, each of them once: a
\* primary record is either mapped or unmatched, never both.
UnmatchedComplement ==
    Exported =>
        /\ \A i \in DOMAIN fpl_df :
              (fpl_df[i] \in UnmatchedRows) <=> (fpl_df[i].id \notin MappedPrimaryIds)
        /\ \A n \in DOMAIN missing_df.value :
              \E i \in DOMAIN fpl_df : missing_df.value[n] = fpl_df[i]
        /\ \A m, n \in DOMAIN missing_df.value :
              missing_df.value[m] = missing_df.value[n] => m = n

\* C14 witness: an export over a table of two primary records has returned one of
\* them, the other one is mapped.
UnmatchedComplementWitness ==
    /\ Exported
    /\ Len(fpl_df) = 2
    /\ Len(missing_df.value) = 1
    /\ \E i \in DOMAIN fpl_df : fpl_df[i].id \in MappedPrimaryIds

\* C15: with an empty table map_players returns an empty mapping table and raises
\* nothing, whatever the overlay holds; the export over a primary table that is not
\* empty and that mapping table returns the whole primary table.
EmptyInputShortCircuit ==
    /\ (Ran /\ (fpl_df = <<>> \/ understat_df = <<>>)) =>
           (ret.raised = "" /\ ret.value = <<>>)
    /\ (Exported /\ fpl_df # <<>> /\ understat_df = <<>>) =>
           (missing_df.mappings_df = <<>> /\ missing_df.value = fpl_df)

\* C15 witness: with a manual pair in the overlay and an empty secondary table, a
\* run has returned the empty table and the export the whole primary table.
EmptyInputShortCircuitWitness ==
    /\ Returned
    /\ manual_mappings # <<>>
    /\ fpl_df # <<>>
    /\ understat_df = <<>>
    /\ Exported
    /\ missing_df.value = fpl_df

----------------------------------------------------------------------------
(* The name similarity scorer                                              *)

Scored == ret.op = "get_name_similarity"

\* the two names of the call as the scorer compares them, and the score
CleanName1 == strip(lower(ret.value[1]))
CleanName2 == strip(lower(ret.value[2]))
Score == ret.value[3]

CharsOf(name) == {name[i] : i \in DOMAIN name}

InUnitInterval(x) == x[2] > 0 /\ 0 <= x[1] /\ x[1] <= x[2]

\* C16 (as claimed): the score is in [0,1], it is 1.0 for two names that are equal
\* after lower-casing and trimming, and 0.0 for two names that share no character.
SimilarityScorerAsClaimed ==
    Scored =>
        /\ InUnitInterval(Score)
        /\ (CleanName1 = CleanName2) => Score = Float(1, 1)
        /\ (CharsOf(CleanName1) \cap CharsOf(CleanName2) = {}) => Score = Float(0, 1)

\* C16 (amended): the score is in [0,1], it is 1.0 for two names that are equal
\* after lower-casing and trimming, two empty names among them, and 0.0 for two
\* names that, lower-cased and trimmed, share no character and are not both empty.
SimilarityScorer ==
    Scored =>
        /\ InUnitInterval(Score)
        /\ (CleanName1 = CleanName2) => Score = Float(1, 1)
        /\ (/\ CharsOf(CleanName1) \cap CharsOf(CleanName2) = {}
            /\ CleanName1 \o CleanName2 # <<>>) => Score = Float(0, 1)

\* C16 witness: two names that differ in case and surrounding whitespace only have
\* the score 1.0.
SimilarityScorerWitness ==
    /\ Scored
    /\ ret.value[1] # ret.value[2]
    /\ lower(ret.value[1]) # lower(ret.value[2])
    /\ strip(ret.value[1]) # strip(ret.value[2])
    /\ CleanName1 = CleanName2
    /\ CleanName1 # <<>>
    /\ Score = Float(1, 1)

----------------------------------------------------------------------------
(* The manual pass                                                         *)

\* the overlay pairs of which both ids are in their tables
ApplicablePairs ==
    {x \in DOMAIN manual_mappings :
        /\ int(manual_mappings[x][1]) \in FplIdsOf(fpl_df)
        /\ manual_mappings[x][2] \in UnderstatIdsOf(understat_df)}

ManualEntries == {n \in DOMAIN ret.value : IsManual(Entry(n))}

\* entry e is the manual entry of overlay pair x
IsManualEntryOf(e, x) ==
    /\ IsManual(e)
    /\ e.fpl_id = int(manual_mappings[x][1])
    /\ e.understat_id = manual_mappings[x][2]
    /\ e.similarity = Float(1, 1)
    /\ e.fpl_name = FplRowOf(e.fpl_id).web_name
    /\ e.understat_name = UnderstatRowOf(e.understat_id).player_name

StoreUntouchedByRun ==
    [][ret'.op = "map_players" =>
          /\ manual_mappings' = manual_mappings
          /\ manual_mappings_type' = manual_mappings_type
          /\ mapping_file' = mapping_file]_vars

\* C18 witness: a run has skipped a pair of the overlay, and the overlay and the
\* persisted table still hold that pair.
StoreUntouchedByRunWitness ==
    /\ Ran
    /\ NonEmptyInputs
    /\ \E x \in DOMAIN manual_mappings : x \notin ApplicablePairs
    /\ mapping_file = Table(manual_mappings)

\* C19 (as claimed): constructing the store over a file that parses to a value
\* that is no table (a list, a string, a number, null) leaves an empty mapping as
\* the overlay, and no later add_manual_mapping or map_players raises because of
\* the type of the overlay.
NonTableOverlayRecovery ==
    /\ (ret.op = "__init__" /\ mapping_file.kind \in {"list", "scalar"}) =>
           /\ ret.raised = ""
           /\ manual_mappings_type = "dict"
           /\ manual_mappings = <<>>
    /\ ret.op \in {"add_manual_mapping", "map_players"} =>
           ret.raised \notin {"TypeError", "AttributeError"}

\* the overlay without the pairs that name an id that is in no table
OverlayWithoutStalePairs ==
    SelectSeq(manual_mappings,
              LAMBDA item : /\ int(item[1]) \in FplIdsOf(fpl_df)
                            /\ item[2] \in UnderstatIdsOf(understat_df))

\* C20 (as claimed): the pairs of the overlay that the manual pass skips exclude
\* no record from the automated pass: the outcome of a run is that of the run
\* on the overlay without those pairs.
StalePairsConsumeNothing ==
    (Ran /\ NonEmptyInputs /\ manual_mappings_type = "dict") =>
        [raised |-> ret.raised, value |-> ret.value]
            = MapPlayersResult(OverlayWithoutStalePairs, fpl_df, understat_df,
                               ret.threshold)

----------------------------------------------------------------------------
(* The automated pass                                                      *)

AutomatedEntriesOf(i) ==
    {n \in EntriesOfPrimary(fpl_df[i].id) : IsAutomated(Entry(n))}

\* C21 (as claimed): at every threshold of [0,1], 0 included, a remaining primary
\* record with a same-team candidate has an automated entry exactly when the
\* highest similarity over its candidates is >= the threshold; at threshold 0 a
\* record whose candidates all have similarity 0 is matched.
AcceptanceAtEveryThreshold ==
    (ReachedAutomatedPass /\ Returned) =>
        \A i \in RemainingPrimaries :
            CandidatesOf(i) # {} =>
                (AutomatedEntriesOf(i) # {} <=> Geq(BestSimilarityOf(i), ret.threshold))

\* the rows of the two records of entry e in their tables
FplIndexOf(e) == CHOOSE i \in DOMAIN fpl_df : fpl_df[i].id = e.fpl_id

UnderstatIndexOf(e) == CHOOSE j \in DOMAIN understat_df : understat_df[j].id = e.understat_id

\* secondary record j is, among the candidates of primary record i, one of the
\* highest similarity and the first of those in the secondary table
IsFirstBestOf(j, i) ==
    /\ j \in CandidatesOf(i)
    /\ \A k \in CandidatesOf(i) :
          /\ Geq(SimilarityOf(i, j), SimilarityOf(i, k))
          /\ SimilarityOf(i, k) = SimilarityOf(i, j) => j <= k

\* C22: the secondary record of every automated entry has the highest name
\* similarity to the primary record among the remaining secondary records on the
\* primary's normalized team, and is the first of the table among those tied at it.
BestMatchSelection ==
    Returned =>
        \A n \in DOMAIN ret.value :
            IsAutomated(Entry(n)) =>
                IsFirstBestOf(UnderstatIndexOf(Entry(n)), FplIndexOf(Entry(n)))

\* C22 witness: an automated entry whose secondary record comes after a candidate
\* of lower similarity and before a candidate of the same similarity.
BestMatchSelectionWitness ==
    /\ Returned
    /\ \E n \in DOMAIN ret.value :
          /\ IsAutomated(Entry(n))
          /\ \E k \in CandidatesOf(FplIndexOf(Entry(n))) :
                /\ k < UnderstatIndexOf(Entry(n))
                /\ Gt(Entry(n).similarity, SimilarityOf(FplIndexOf(Entry(n)), k))
          /\ \E k \in CandidatesOf(FplIndexOf(Entry(n))) :
                /\ k > UnderstatIndexOf(Entry(n))
                /\ SimilarityOf(FplIndexOf(Entry(n)), k) = Entry(n).similarity

\* the automated entries of the run on the remaining primary record i alone, with
\* the same overlay, secondary table and threshold
AutomatedEntriesAlone(i) ==
    SelectSeq(Mappings(manual_mappings, <<fpl_df[i]>>, understat_df, ret.threshold),
              IsAutomated)

\* the automated entries of primary record i in the table of the run
AutomatedEntriesInRun(i) ==
    SelectSeq(ret.value, LAMBDA e : IsAutomated(e) /\ e.fpl_id = fpl_df[i].id)

\* C23: the automated entry of a remaining primary record, or the absence of one,
\* is that of the run on this record alone: it does not depend on the other
\* primary records, and a secondary record that one primary is matched to stays a
\* candidate of the others.
IndependentAutomatedMatches ==
    (ReachedAutomatedPass /\ Returned) =>
        \A i \in RemainingPrimaries : AutomatedEntriesInRun(i) = AutomatedEntriesAlone(i)

\* C23 witness: two remaining primary records of different names each have the
\* same secondary record as their best candidate at or above the threshold, and
\* both have an automated entry with it.
IndependentAutomatedMatchesWitness ==
    /\ Returned
    /\ \E m, n \in DOMAIN ret.value :
          /\ m < n
          /\ IsAutomated(Entry(m))
          /\ IsAutomated(Entry(n))
          /\ Entry(m).fpl_name # Entry(n).fpl_name
          /\ Entry(m).understat_id = Entry(n).understat_id
          /\ \E k \in CandidatesOf(FplIndexOf(Entry(n))) : k # UnderstatIndexOf(Entry(n))

\* C24: every automated entry carries as its confidence the name similarity of its
\* two records, and that confidence is >= the threshold of the run and <= 1.
AutomatedConfidence ==
    Returned =>
        \A n \in DOMAIN ret.value :
            IsAutomated(Entry(n)) =>
                /\ Entry(n).similarity
                       = get_name_similarity(fpl_df[FplIndexOf(Entry(n))].web_name,
                                             understat_df[UnderstatIndexOf(Entry(n))].player_name)
                /\ Geq(Entry(n).similarity, ret.threshold)
                /\ Geq(Float(1, 1), Entry(n).similarity)

\* C24 witness: one run at a threshold above 0 has returned an automated entry
\* whose confidence is the threshold, below 1, and one of confidence 1.
AutomatedConfidenceWitness ==
    /\ Returned
    /\ Gt(ret.threshold, Float(0, 1))
    /\ \E n \in DOMAIN ret.value :
          /\ IsAutomated(Entry(n))
          /\ Entry(n).similarity = ret.threshold
          /\ Gt(Float(1, 1), Entry(n).similarity)
    /\ \E n \in DOMAIN ret.value :
          IsAutomated(Entry(n)) /\ Entry(n).similarity = Float(1, 1)

\* the <<primary id, secondary id>> of the manual entries of the table, in its order
ManualPairsOfTable ==
    LET manual == SelectSeq(ret.value, IsManual)
    IN  [n \in DOMAIN manual |-> <<manual[n].fpl_id, manual[n].understat_id>>]

\* the <<primary id, secondary id>> of the overlay pairs of which both ids are in
\* their tables, in the iteration order of the overlay
ApplicablePairsInOrder ==
    LET applicable ==
            SelectSeq(manual_mappings,
                      LAMBDA item : /\ int(item[1]) \in FplIdsOf(fpl_df)
                                    /\ item[2] \in UnderstatIdsOf(understat_df))
    IN  [n \in DOMAIN applicable |-> <<int(applicable[n][1]), applicable[n][2]>>]

\* C25: in the returned table every manual entry precedes every automated entry,
\* the manual entries are in the iteration order of the overlay, and the automated
\* entries are in the order of their primary records in the primary table.
OutputOrder ==
    (Returned /\ NonEmptyInputs) =>
        /\ \A m, n \in DOMAIN ret.value :
              (IsManual(Entry(m)) /\ IsAutomated(Entry(n))) => m < n
        /\ ManualPairsOfTable = ApplicablePairsInOrder
        /\ \A m, n \in DOMAIN ret.value :
              (IsAutomated(Entry(m)) /\ IsAutomated(Entry(n)) /\ m < n) =>
                  FplIndexOf(Entry(m)) < FplIndexOf(Entry(n))

\* C25 witness: two manual entries in the order of the overlay, which is not that
\* of their primary records in the table, are followed by an automated entry.
OutputOrderWitness ==
    /\ Returned
    /\ Len(ret.value) >= 3
    /\ IsManual(Entry(1))
    /\ IsManual(Entry(2))
    /\ FplIndexOf(Entry(1)) > FplIndexOf(Entry(2))
    /\ IsAutomated(Entry(3))

----------------------------------------------------------------------------
(* The input tables                                                        *)

\* C26: map_players leaves both input tables as they were: the same rows, the same
\* columns (no normalized team column) and the same team values.
InputTablesUnchanged ==
    [][ret'.op = "map_players" =>
          (fpl_df' = fpl_df /\ understat_df' = understat_df)]_vars

\* C26 witness: a run has normalized the team of a remaining primary record and
\* of a remaining secondary record to another key, and the tables the caller
\* holds have their columns and no other.
InputTablesUnchangedWitness ==
    /\ Returned
    /\ ReachedAutomatedPass
    /\ \E i \in RemainingPrimaries : TeamKey(fpl_df[i].team_name) # fpl_df[i].team_name
    /\ \E j \in RemainingSecondaries :
          TeamKey(understat_df[j].team_title) # understat_df[j].team_title
    /\ \A i \in DOMAIN fpl_df : DOMAIN fpl_df[i] = {"id", "web_name", "team_name"}
    /\ \A j \in DOMAIN understat_df :
          DOMAIN understat_df[j] = {"id", "player_name", "team_title"}

----------------------------------------------------------------------------
(* Missing values                                                          *)

\* table df with "" in the place of every missing name and team
Blank(df) ==
    [i \in DOMAIN df |->
        [c \in DOMAIN df[i] |->
            IF c # "id" /\ df[i][c] = NaN THEN <<>> ELSE df[i][c]]]

\* what the entries link: ids, type and confidence
Links(entries) ==
    [n \in DOMAIN entries |->
        <<entries[n].fpl_id, entries[n].understat_id, entries[n].matching_type,
          entries[n].similarity>>]

\* C27 (as claimed): a record with a missing name or team is processed as if the
\* value were "": the run links what the run on the tables with "" in the place
\* of the missing values links.
MissingAsEmptyString ==
    ReachedAutomatedPass =>
        Links(ret.value)
            = Links(Mappings(manual_mappings, Blank(fpl_df), Blank(understat_df),
                             ret.threshold))

----------------------------------------------------------------------------
(* The primary id through the collection                                   *)

Collected == ret.op = "collect_understat_data" /\ ret.raised = "" /\ fpl_df # <<>>

\* the row of the primary table that entry e has been made from
MatchedPlayer(e) == fpl_df[CHOOSE i \in DOMAIN fpl_df : fpl_df[i].id = e.fpl_id]

\* the row of the players table with primary key id
DbPlayer(id) == db_players[CHOOSE i \in DOMAIN db_players : db_players[i].id = id]

\* C28 (as claimed): after a collection the primary_id of every mapping entry is
\* the FPL id of the player it was made from, and the Understat id of the entry
\* (of the last entry of that player) is stored on that player.
PrimaryIdIsFplId ==
    Collected =>
        \A n \in DOMAIN ret.value :
            /\ ret.value[n].fpl_id = MatchedPlayer(ret.value[n]).fpl_id
            /\ (\A m \in DOMAIN ret.value :
                    ret.value[m].fpl_id = ret.value[n].fpl_id => m <= n)
               => DbPlayer(MatchedPlayer(ret.value[n]).id).understat_id
                      = ret.value[n].understat_id

----------------------------------------------------------------------------
(* The review file                                                         *)

\* C29 (as claimed): after every export_missing_mappings to the same path, the
\* file at the path lists exactly the unmatched records that call has returned,
\* none when it has returned none.
ReviewFileTracksLatestRun ==
    Exported => output_file.rows = missing_df.value

----------------------------------------------------------------------------
(* The team normalizer                                                     *)

Normalized == ret.op = "normalize_team_names"

\* C30: normalizing the normalized key of a team name gives that key again, and
\* every canonical key of the lookup table is a fixed point of the normalizer.
NormalizerIdempotent ==
    Normalized =>
        /\ \A n \in 2 .. Len(ret.value) - 1 : ret.value[n + 1] = ret.value[n]
        /\ ret.value[1] \in CanonicalKeys => ret.value[2] = ret.value[1]

\* C30 witness: a name in upper case has been normalized to a canonical key, which
\* is another text, and that key has been normalized to itself.
NormalizerIdempotentWitness ==
    /\ Normalized
    /\ Len(ret.value) >= 3
    /\ ret.value[1] # lower(ret.value[1])
    /\ ret.value[2] \in CanonicalKeys
    /\ ret.value[2] # lower(ret.value[1])
    /\ ret.value[3] = ret.value[2]

====
